---- MODULE Spec2Model ----
(***************************************************************************)
(* A model of todoApp.ts: the TodoList store (class TodoList), with the    *)
(* JavaScript object heap made explicit so that the references returned by *)
(* addTodo, listTodos and filterByStatus can be told apart from copies.    *)
(***************************************************************************)
EXTENDS Integers, Sequences, FiniteSets, TLC

\* ---------------------------------------------------------------- bounds
MaxId == 2          \* at most this many tasks are ever created
MaxLen == 2         \* longest description a caller passes
MaxMutations == 1   \* writes a caller makes through a returned reference
MaxPersons == 2     \* longest array passed to filterPersons, the seed aside

\* ---------------------------------------------------------------- inputs
Chars == {" ", "a"}
Whitespace == {" "}
Descriptions == UNION {[1..n -> Chars] : n \in 0..MaxLen}
\* due dates are only stored and handed back, never compared: two suffice
Dates == {"today", "later"}
Ids == 1..(MaxId + 1)

VARIABLES
  todos,      \* TodoList.todos: the array, a sequence of object references
  nextId,     \* TodoList.nextId
  heap,       \* the TodoItem objects, by reference
  allocs,     \* number of TodoItem objects created so far
  ret,        \* what the last call handed to the caller: a value or an error
  assigned,   \* ids handed out by successful addTodo calls
  removed,    \* ids for which removeTodo has succeeded
  mutations,  \* writes the caller has made through returned references
  people,     \* filterPersons: the persons argument
  personType, \* filterPersons: the personType argument
  criteria,   \* filterPersons: the criteria argument
  matched,    \* filterPersons: the array returned
  called,     \* filterPersons has been called on these arguments
  ui,         \* TodoApp.rl: the question pending, how many are pending, and
              \* how often the main menu was shown since the last menu choice
  choice,     \* the last answer to the main menu
  flow,       \* what the pending callback's closure holds: task, todos, id
  storeCall,  \* the last TodoList method a callback called, and its outcome
  uncaught    \* an error has left a callback uncaught

storeVars == <<todos, nextId, heap, allocs, ret, assigned, removed, mutations>>
filterVars == <<people, personType, criteria, matched, called>>
appVars == <<ui, choice, flow, storeCall, uncaught>>
vars == <<storeVars, filterVars, appVars>>

\* ------------------------------------------------------------ primitives
MinOf(S) == CHOOSE x \in S : \A y \in S : x <= y

Range(f) == {f[i] : i \in DOMAIN f}

\* String.prototype.trim: drop leading and trailing whitespace
RECURSIVE TrimStart(_)
TrimStart(str) ==
  IF str = <<>> THEN <<>>
  ELSE IF Head(str) \in Whitespace THEN TrimStart(Tail(str)) ELSE str

RECURSIVE TrimEnd(_)
TrimEnd(str) ==
  IF str = <<>> THEN <<>>
  ELSE IF str[Len(str)] \in Whitespace THEN TrimEnd(SubSeq(str, 1, Len(str) - 1))
  ELSE str

trim(str) == TrimEnd(TrimStart(str))

\* !task || task.trim() === ''
IsEmptyDescription(task) == task = <<>> \/ trim(task) = <<>>

\* Array.prototype.splice(index, 1), negative index counted from the end
Splice1(arr, index) ==
  LET start == IF index < 0
               THEN (IF Len(arr) + index < 0 THEN 0 ELSE Len(arr) + index)
               ELSE (IF index > Len(arr) THEN Len(arr) ELSE index)
  IN IF start >= Len(arr) THEN arr
     ELSE SubSeq(arr, 1, start) \o SubSeq(arr, start + 2, Len(arr))

\* objects no longer referenced by the array are garbage
Collect(arr, h) == [o \in Range(arr) |-> h[o]]

\* ------------------------------------------------------- returned values
Void == [kind |-> "void", item |-> 0, list |-> <<>>, count |-> 0, error |-> ""]
RetItem(o) == [Void EXCEPT !.kind = "item", !.item = o]
RetList(arr) == [Void EXCEPT !.kind = "list", !.list = arr]
RetCount(n) == [Void EXCEPT !.kind = "count", !.count = n]
\* throw new Error(message): the two messages of TodoList, by kind
Thrown(kind) == [Void EXCEPT !.kind = "error", !.error = kind]

Result(s, outcome, r) == [s |-> s, outcome |-> outcome, ret |-> r]

\* ------------------------------------------------------------- TodoList
Store == [todos |-> todos, heap |-> heap, nextId |-> nextId]

\* the tasks as a reader sees them: the array with references followed
Items(arr, h) == [i \in 1..Len(arr) |-> h[arr[i]]]

\* todos.findIndex(todo => todo.id === id), 0-based, -1 when absent
findTodoIndexById(s, id) ==
  LET hits == {i \in 1..Len(s.todos) : s.heap[s.todos[i]].id = id}
  IN IF hits = {} THEN -1 ELSE MinOf(hits) - 1

\* id taken from the array length instead of the counter
addTodo_idFromLength(s, task, dueDate, ref) ==
  IF IsEmptyDescription(task) THEN Result(s, "ValidationError", Void)
  ELSE LET newTodo == [id |-> Len(s.todos) + 1, task |-> trim(task),
                       completed |-> FALSE, dueDate |-> dueDate]
       IN Result([todos |-> Append(s.todos, ref),
                  heap |-> (ref :> newTodo) @@ s.heap,
                  nextId |-> Len(s.todos) + 2],
                 "ok", RetItem(ref))

\* id: this.nextId, without the increment
addTodo_noIncrement(s, task, dueDate, ref) ==
  IF IsEmptyDescription(task) THEN Result(s, "ValidationError", Void)
  ELSE LET newTodo == [id |-> s.nextId, task |-> trim(task),
                       completed |-> FALSE, dueDate |-> dueDate]
       IN Result([todos |-> Append(s.todos, ref),
                  heap |-> (ref :> newTodo) @@ s.heap,
                  nextId |-> s.nextId],
                 "ok", RetItem(ref))

\* task stored as passed, the trim() of line 31 left out
addTodo_noTrim(s, task, dueDate, ref) ==
  IF IsEmptyDescription(task) THEN Result(s, "ValidationError", Void)
  ELSE LET newTodo == [id |-> s.nextId, task |-> task,
                       completed |-> FALSE, dueDate |-> dueDate]
       IN Result([todos |-> Append(s.todos, ref),
                  heap |-> (ref :> newTodo) @@ s.heap,
                  nextId |-> s.nextId + 1],
                 "ok", RetItem(ref))

\* this.todos.unshift(newTodo): the new task put first
addTodo_unshift(s, task, dueDate, ref) ==
  IF IsEmptyDescription(task) THEN Result(s, "ValidationError", Void)
  ELSE LET newTodo == [id |-> s.nextId, task |-> trim(task),
                       completed |-> FALSE, dueDate |-> dueDate]
       IN Result([todos |-> <<ref>> \o s.todos,
                  heap |-> (ref :> newTodo) @@ s.heap,
                  nextId |-> s.nextId + 1],
                 "ok", RetItem(ref))

addTodo(s, task, dueDate, ref) ==
  IF IsEmptyDescription(task) THEN Result(s, "ValidationError", Void)
  ELSE LET newTodo == [id |-> s.nextId, task |-> trim(task),
                       completed |-> FALSE, dueDate |-> dueDate]
       IN Result([todos |-> Append(s.todos, ref),
                  heap |-> (ref :> newTodo) @@ s.heap,
                  nextId |-> s.nextId + 1],
                 "ok", RetItem(ref))

\* completed = !completed
completeTodo_toggle(s, id) ==
  LET todoIndex == findTodoIndexById(s, id)
  IN IF todoIndex = -1 THEN Result(s, "NotFoundError", Void)
     ELSE Result([s EXCEPT !.heap[s.todos[todoIndex + 1]].completed =
                             ~s.heap[s.todos[todoIndex + 1]].completed],
                 "ok", Void)

completeTodo(s, id) ==
  LET todoIndex == findTodoIndexById(s, id)
  IN IF todoIndex = -1 THEN Result(s, "NotFoundError", Void)
     ELSE Result([s EXCEPT !.heap[s.todos[todoIndex + 1]].completed = TRUE],
                 "ok", Void)

\* the -1 check left out: splice(-1, 1) drops the last element
removeTodo_noCheck(s, id) ==
  LET todoIndex == findTodoIndexById(s, id)
      arr == Splice1(s.todos, todoIndex)
  IN Result([s EXCEPT !.todos = arr, !.heap = Collect(arr, s.heap)], "ok", Void)

\* splice(id, 1): the id used as the array index
removeTodo_idAsIndex(s, id) ==
  LET todoIndex == findTodoIndexById(s, id)
  IN IF todoIndex = -1 THEN Result(s, "NotFoundError", Void)
     ELSE LET arr == Splice1(s.todos, id)
          IN Result([s EXCEPT !.todos = arr, !.heap = Collect(arr, s.heap)],
                    "ok", Void)

removeTodo(s, id) ==
  LET todoIndex == findTodoIndexById(s, id)
  IN IF todoIndex = -1 THEN Result(s, "NotFoundError", Void)
     ELSE LET arr == Splice1(s.todos, todoIndex)
          IN Result([s EXCEPT !.todos = arr, !.heap = Collect(arr, s.heap)],
                    "ok", Void)

listTodos(s) == Result(s, "ok", RetList([i \in 1..Len(s.todos) |-> s.todos[i]]))

\* filter(todo => todo.completed): the argument ignored
filterByStatus_ignoreArg(s, completed) ==
  Result(s, "ok", RetList(SelectSeq(s.todos, LAMBDA o : s.heap[o].completed)))

filterByStatus(s, completed) ==
  Result(s, "ok",
         RetList(SelectSeq(s.todos, LAMBDA o : s.heap[o].completed = completed)))

\* if (!newTask): the whitespace test left out
updateTaskDescription_noTrimTest(s, id, newTask) ==
  IF newTask = <<>> THEN Result(s, "ValidationError", Void)
  ELSE LET todoIndex == findTodoIndexById(s, id)
       IN IF todoIndex = -1 THEN Result(s, "NotFoundError", Void)
          ELSE Result([s EXCEPT !.heap[s.todos[todoIndex + 1]].task = trim(newTask)],
                      "ok", Void)

updateTaskDescription(s, id, newTask) ==
  IF IsEmptyDescription(newTask) THEN Result(s, "ValidationError", Void)
  ELSE LET todoIndex == findTodoIndexById(s, id)
       IN IF todoIndex = -1 THEN Result(s, "NotFoundError", Void)
          ELSE Result([s EXCEPT !.heap[s.todos[todoIndex + 1]].task = trim(newTask)],
                      "ok", Void)

\* a rescheduled task reopened: completed reset along with the date
updateDueDate_reopens(s, id, newDueDate) ==
  LET todoIndex == findTodoIndexById(s, id)
  IN IF todoIndex = -1 THEN Result(s, "NotFoundError", Void)
     ELSE Result([s EXCEPT !.heap[s.todos[todoIndex + 1]].dueDate = newDueDate,
                           !.heap[s.todos[todoIndex + 1]].completed = FALSE],
                 "ok", Void)

updateDueDate(s, id, newDueDate) ==
  LET todoIndex == findTodoIndexById(s, id)
  IN IF todoIndex = -1 THEN Result(s, "NotFoundError", Void)
     ELSE Result([s EXCEPT !.heap[s.todos[todoIndex + 1]].dueDate = newDueDate],
                 "ok", Void)

\* return this.todos.length: what is left instead of what was removed
clearCompletedTodos_returnsLeft(s) ==
  LET arr == SelectSeq(s.todos, LAMBDA o : ~s.heap[o].completed)
  IN Result([s EXCEPT !.todos = arr, !.heap = Collect(arr, s.heap)],
            "ok", RetCount(Len(arr)))

\* filter(todo => todo.completed): the test the wrong way round
clearCompletedTodos_keepsCompleted(s) ==
  LET initialCount == Len(s.todos)
      arr == SelectSeq(s.todos, LAMBDA o : s.heap[o].completed)
  IN Result([s EXCEPT !.todos = arr, !.heap = Collect(arr, s.heap)],
            "ok", RetCount(initialCount - Len(arr)))

clearCompletedTodos(s) ==
  LET initialCount == Len(s.todos)
      arr == SelectSeq(s.todos, LAMBDA o : ~s.heap[o].completed)
  IN Result([s EXCEPT !.todos = arr, !.heap = Collect(arr, s.heap)],
            "ok", RetCount(initialCount - Len(arr)))

\* ---------------------------------------------------------------- calls
\* one call of a TodoList method with result r: the new store, and the value
\* or the error the caller gets
Invoke(r) ==
  /\ todos' = r.s.todos
  /\ heap' = r.s.heap
  /\ nextId' = r.s.nextId
  /\ ret' = IF r.outcome = "ok" THEN r.ret ELSE Thrown(r.outcome)
  /\ UNCHANGED <<filterVars, appVars>>

\* new TodoList()
InitStore ==
  /\ todos = <<>>
  /\ nextId = 1
  /\ heap = <<>>
  /\ allocs = 0
  /\ ret = Void
  /\ assigned = {}
  /\ removed = {}
  /\ mutations = 0

\* filterPersons not called
InitFilter ==
  /\ people = <<>>
  /\ personType = "user"
  /\ criteria = [k \in {} |-> 0]
  /\ matched = <<>>
  /\ called = FALSE

\* the closure of a callback that holds nothing
NoFlow == [task |-> <<>>, todos |-> <<>>, id |-> 0]

NoCall == [op |-> "none", outcome |-> "ok"]

\* new TodoApp(), before start()
InitApp ==
  /\ ui = [pc |-> "none", pending |-> 0, shown |-> 0]
  /\ choice = ""
  /\ flow = NoFlow
  /\ storeCall = NoCall
  /\ uncaught = FALSE

Init == InitStore /\ InitFilter /\ InitApp

CallAddTodo ==
  \E task \in Descriptions, dueDate \in Dates :
    /\ allocs < MaxId
    /\ LET r == addTodo(Store, task, dueDate, allocs + 1)
       IN /\ Invoke(r)
          /\ allocs' = IF r.outcome = "ok" THEN allocs + 1 ELSE allocs
          /\ assigned' = IF r.outcome = "ok"
                         THEN assigned \cup {r.s.heap[r.ret.item].id} ELSE assigned
    /\ UNCHANGED <<removed, mutations>>

CallCompleteTodo ==
  \E id \in Ids :
    /\ Invoke(completeTodo(Store, id))
    /\ UNCHANGED <<allocs, assigned, removed, mutations>>

CallRemoveTodo ==
  \E id \in Ids :
    /\ LET r == removeTodo(Store, id)
       IN /\ Invoke(r)
          /\ removed' = IF r.outcome = "ok" THEN removed \cup {id} ELSE removed
    /\ UNCHANGED <<allocs, assigned, mutations>>

CallListTodos ==
  /\ Invoke(listTodos(Store))
  /\ UNCHANGED <<allocs, assigned, removed, mutations>>

CallFilterByStatus ==
  \E completed \in BOOLEAN :
    /\ Invoke(filterByStatus(Store, completed))
    /\ UNCHANGED <<allocs, assigned, removed, mutations>>

CallUpdateTaskDescription ==
  \E id \in Ids, newTask \in Descriptions :
    /\ Invoke(updateTaskDescription(Store, id, newTask))
    /\ UNCHANGED <<allocs, assigned, removed, mutations>>

CallUpdateDueDate ==
  \E id \in Ids, newDueDate \in Dates :
    /\ Invoke(updateDueDate(Store, id, newDueDate))
    /\ UNCHANGED <<allocs, assigned, removed, mutations>>

CallClearCompletedTodos ==
  /\ Invoke(clearCompletedTodos(Store))
  /\ UNCHANGED <<allocs, assigned, removed, mutations>>

Next ==
  \/ CallAddTodo
  \/ CallCompleteTodo
  \/ CallRemoveTodo
  \/ CallListTodos
  \/ CallFilterByStatus
  \/ CallUpdateTaskDescription
  \/ CallUpdateDueDate
  \/ CallClearCompletedTodos

Spec == Init /\ [][Next]_vars

\* ------------------------------------------- a caller that keeps references
\* A caller of TodoList holds what addTodo, listTodos and filterByStatus
\* returned and may write to it: TodoItem has no readonly field.
Reverse(arr) == [i \in 1..Len(arr) |-> arr[Len(arr) + 1 - i]]

FieldWrites(h, o) ==
  {[h EXCEPT ![o].id = v] : v \in Ids \ {h[o].id}}
  \cup {[h EXCEPT ![o].task = v] : v \in Descriptions \ {h[o].task}}
  \cup {[h EXCEPT ![o].completed = ~h[o].completed]}
  \cup {[h EXCEPT ![o].dueDate = v] : v \in Dates \ {h[o].dueDate}}

CallerWrite(h, r) ==
  /\ mutations < MaxMutations
  /\ mutations' = mutations + 1
  /\ heap' = h
  /\ ret' = r
  /\ UNCHANGED <<todos, nextId, allocs, assigned, removed>>
  /\ UNCHANGED <<filterVars, appVars>>

\* newTodo.field = value, on the object addTodo returned
WriteReturnedItem ==
  /\ ret.kind = "item"
  /\ \E h \in FieldWrites(heap, ret.item) : CallerWrite(h, ret)

\* list[i].field = value, on an element of a returned array
WriteListElement ==
  /\ ret.kind = "list"
  /\ \E i \in 1..Len(ret.list) :
       \E h \in FieldWrites(heap, ret.list[i]) : CallerWrite(h, ret)

\* list.pop(), list.push(list[0]), list.reverse() on a returned array
WriteListSequence ==
  /\ ret.kind = "list"
  /\ Len(ret.list) > 0
  /\ \E arr \in {SubSeq(ret.list, 1, Len(ret.list) - 1),
                  Append(ret.list, ret.list[1]),
                  Reverse(ret.list)} :
       CallerWrite(heap, RetList(arr))

NextCaller ==
  \/ Next
  \/ WriteReturnedItem
  \/ WriteListElement
  \/ WriteListSequence

SpecCaller == Init /\ [][NextCaller]_vars

\* ---------------------------------------------------------- filterPersons
\* export const persons
persons ==
  << [type |-> "user", name |-> "Sarah Chen", age |-> 28, occupation |-> "Software Engineer"],
     [type |-> "admin", name |-> "Marcus Rodriguez", age |-> 35, role |-> "System Administrator"],
     [type |-> "user", name |-> "Emma Thompson", age |-> 23, occupation |-> "Data Analyst"],
     [type |-> "admin", name |-> "Raj Patel", age |-> 40, role |-> "Security Manager"],
     [type |-> "user", name |-> "Alex Kim", age |-> 23, occupation |-> "UX Designer"],
     [type |-> "admin", name |-> "Sophia Martinez", age |-> 23, role |-> "Network Administrator"] >>

\* interface User, interface Admin: a few records of each
Users == [type : {"user"}, name : {"Ann"}, age : {23, 40}, occupation : {"Nurse", "Pilot"}]
Admins == [type : {"admin"}, name : {"Ann"}, age : {23, 40}, role : {"Nurse", "Pilot"}]
Persons == Users \cup Admins

\* the object with only the keys in keys
Pick(obj, keys) == [k \in keys |-> obj[k]]

\* CriteriaType<T> = Partial<Omit<T, 'type'>>
UserCriteria ==
  {Pick(c, keys) : c \in [name : {"Ann", "Bob"}, age : {23, 40}, occupation : {"Nurse", "Pilot"}],
                   keys \in SUBSET {"name", "age", "occupation"}}
AdminCriteria ==
  {Pick(c, keys) : c \in [name : {"Ann", "Bob"}, age : {23, 40}, role : {"Nurse", "Pilot"}],
                   keys \in SUBSET {"name", "age", "role"}}

\* the calls the module makes on the seed collection, and one that matches nobody
SeedCalls ==
  { <<"user", Pick([age |-> 23], {"age"})>>,
    <<"admin", Pick([age |-> 23], {"age"})>>,
    <<"user", Pick([occupation |-> "Software Engineer"], {"occupation"})>>,
    <<"admin", Pick([role |-> "Security Manager"], {"role"})>>,
    <<"admin", Pick([age |-> 999], {"age"})>> }

\* person[fieldName], undefined when the object has no such key
Field(person, fieldName) ==
  IF fieldName \in DOMAIN person THEN person[fieldName] ELSE "undefined"

\* the arguments after the call, and the array returned
Filtered(ps, crit, result) == [persons |-> ps, criteria |-> crit, result |-> result]

\* criteriaKeys.some(...) in place of every
filterPersons_some(ps, type, crit) ==
  LET ofType == SelectSeq(ps, LAMBDA person : person.type = type)
      criteriaKeys == DOMAIN crit
  IN Filtered(ps, crit,
              SelectSeq(ofType, LAMBDA person :
                \E fieldName \in criteriaKeys :
                  Field(person, fieldName) = crit[fieldName]))

\* the first filter, on person.type, left out
filterPersons_anyType(ps, type, crit) ==
  LET criteriaKeys == DOMAIN crit
  IN Filtered(ps, crit,
              SelectSeq(ps, LAMBDA person :
                \A fieldName \in criteriaKeys :
                  Field(person, fieldName) = crit[fieldName]))

\* the second filter, on the criteria, left out
filterPersons_anyCriteria(ps, type, crit) ==
  Filtered(ps, crit, SelectSeq(ps, LAMBDA person : person.type = type))

\* the matches kept by removing the others from persons itself
filterPersons_inPlace(ps, type, crit) ==
  LET ofType == SelectSeq(ps, LAMBDA person : person.type = type)
      criteriaKeys == DOMAIN crit
      kept == SelectSeq(ofType, LAMBDA person :
                \A fieldName \in criteriaKeys :
                  Field(person, fieldName) = crit[fieldName])
  IN Filtered(kept, crit, kept)

filterPersons(ps, type, crit) ==
  LET ofType == SelectSeq(ps, LAMBDA person : person.type = type)
      criteriaKeys == DOMAIN crit
  IN Filtered(ps, crit,
              SelectSeq(ofType, LAMBDA person :
                \A fieldName \in criteriaKeys :
                  Field(person, fieldName) = crit[fieldName]))

InitArguments ==
  /\ InitStore
  /\ InitApp
  /\ \/ /\ people \in UNION {[1..n -> Persons] : n \in 0..MaxPersons}
        /\ \/ personType = "user" /\ criteria \in UserCriteria
           \/ personType = "admin" /\ criteria \in AdminCriteria
     \/ /\ people = persons
        /\ \E call \in SeedCalls : personType = call[1] /\ criteria = call[2]
  /\ matched = <<>>
  /\ called = FALSE

CallFilterPersons ==
  /\ ~called
  /\ LET r == filterPersons(people, personType, criteria)
     IN /\ people' = r.persons
        /\ criteria' = r.criteria
        /\ matched' = r.result
  /\ called' = TRUE
  /\ UNCHANGED <<personType, storeVars, appVars>>

NextFilter == CallFilterPersons

SpecFilter == InitArguments /\ [][NextFilter]_vars

\* ---------------------------------------------------------------- TodoApp
\* what the user types
MenuChoices == {"0", "1", "2", "3", "4", "5", "6", "7", "8", "x"}
UpdateChoices == {"0", "1", "2", "x"}
Digits == <<"0", "1", "2", "3", "4", "5", "6", "7", "8", "9">>
IdStrings == {<<>>, <<"x">>, <<"1", "x">>, <<" ", "1">>} \cup {<<Digits[id + 1]>> : id \in Ids}
DateStrings == {"", " ", "2026-11-05", "2026-12-31", "soon"}

\* parseInt of a string with no digit to read
NaN == -1

IsDigit(c) == \E i \in 1..10 : Digits[i] = c
DigitValue(c) == (CHOOSE i \in 1..10 : Digits[i] = c) - 1

RECURSIVE ReadDigits(_, _)
ReadDigits(str, n) ==
  IF str = <<>> \/ ~IsDigit(Head(str)) THEN n
  ELSE ReadDigits(Tail(str), 10 * n + DigitValue(Head(str)))

\* parseInt(idStr): leading whitespace skipped, then the digits up to the
\* first other character
parseInt(str) ==
  LET s == TrimStart(str)
  IN IF s = <<>> \/ ~IsDigit(Head(s)) THEN NaN ELSE ReadDigits(s, 0)

\* new Date(dueDateStr)
newDate(str) ==
  CASE str = "2026-11-05" -> "today"
    [] str = "2026-12-31" -> "later"
    [] OTHER -> "Invalid Date"

\* dueDateStr.trim() === ''
TrimsToEmpty(str) == str \in {"", " "}

\* displayTodos throws when formatDate meets an invalid date
displayTodosThrows(arr, h) == \E i \in 1..Len(arr) : h[arr[i]].dueDate = "Invalid Date"

\* a callback has taken its line
answered(u) == [u EXCEPT !.pending = @ - 1]

\* this.rl.question(prompt, callback)
question(u, prompt) == [u EXCEPT !.pc = prompt, !.pending = @ + 1]

showMainMenu(u) == question([u EXCEPT !.shown = @ + 1], "menu")

\* this.rl.close()
exitApp(u) == [u EXCEPT !.pc = "closed", !.pending = 0]

Called(op, outcome) == [op |-> op, outcome |-> outcome]

\* what a callback leaves: the store, the interface, the closure of the next
\* callback, the store call it made, and whether an error left it uncaught
Done(s, u, f, call, thrown) ==
  [s |-> s, ui |-> u, flow |-> f, call |-> call, uncaught |-> thrown]

\* the store call outside any try: its error leaves the callback
TryThenMenu_noCatch(u, op, r) ==
  IF r.outcome = "ok" THEN Done(r.s, showMainMenu(u), NoFlow, Called(op, r.outcome), FALSE)
  ELSE Done(r.s, u, NoFlow, Called(op, r.outcome), TRUE)

\* try { store call } catch { log }; this.showMainMenu()
TryThenMenu(u, op, r) == Done(r.s, showMainMenu(u), NoFlow, Called(op, r.outcome), FALSE)

\* listAllTodos, listIncompleteTodos, listCompletedTodos
listFlow(s, u, which) ==
  LET r == CASE which = "2" -> listTodos(s)
             [] which = "3" -> filterByStatus(s, FALSE)
             [] which = "4" -> filterByStatus(s, TRUE)
      op == IF which = "2" THEN "listTodos" ELSE "filterByStatus"
  IN IF displayTodosThrows(r.ret.list, s.heap)
     THEN Done(s, u, NoFlow, Called(op, "ok"), TRUE)
     ELSE Done(s, showMainMenu(u), NoFlow, Called(op, "ok"), FALSE)

\* completeTodoFlow and removeTodoFlow up to their question
idFlow(s, u, r, op, prompt) ==
  IF Len(r.ret.list) = 0 THEN Done(s, showMainMenu(u), NoFlow, Called(op, "ok"), FALSE)
  ELSE IF displayTodosThrows(r.ret.list, s.heap)
       THEN Done(s, u, NoFlow, Called(op, "ok"), TRUE)
       ELSE Done(s, question(u, prompt), NoFlow, Called(op, "ok"), FALSE)

completeTodoFlow(s, u) == idFlow(s, u, filterByStatus(s, FALSE), "filterByStatus", "completeId")

removeTodoFlow(s, u) == idFlow(s, u, listTodos(s), "listTodos", "removeId")

\* updateTodoFlow up to its question: the callback keeps the array listed
updateTodoFlow(s, u) ==
  LET r == listTodos(s)
      d == idFlow(s, u, r, "listTodos", "updateId")
  IN IF d.ui.pc = "updateId" THEN [d EXCEPT !.flow.todos = r.ret.list] ELSE d

\* addTodoFlow, inner callback
onDueDate(s, u, task, dueDateStr, ref) ==
  LET dueDate == IF TrimsToEmpty(dueDateStr) THEN "today" ELSE newDate(dueDateStr)
  IN IF dueDate = "Invalid Date"
     THEN Done(s, showMainMenu(u), NoFlow, NoCall, FALSE)
     ELSE TryThenMenu(u, "addTodo", addTodo(s, task, dueDate, ref))

onCompleteId(s, u, idStr) == TryThenMenu(u, "completeTodo", completeTodo(s, parseInt(idStr)))

onRemoveId(s, u, idStr) == TryThenMenu(u, "removeTodo", removeTodo(s, parseInt(idStr)))

\* the id taken as typed, not looked up
onUpdateId_noLookup(s, u, f, idStr) ==
  Done(s, question(u, "updateChoice"), [NoFlow EXCEPT !.id = parseInt(idStr)], NoCall, FALSE)

\* updateTodoFlow, outer callback: the id looked up in the array listed
onUpdateId(s, u, f, idStr) ==
  LET id == parseInt(idStr)
      todoIndex == findTodoIndexById([s EXCEPT !.todos = f.todos], id)
  IN IF todoIndex = -1
     THEN Done(s, showMainMenu(u), NoFlow, NoCall, FALSE)
     ELSE Done(s, question(u, "updateChoice"), [NoFlow EXCEPT !.id = id], NoCall, FALSE)

\* updateTodoFlow, inner callback
onUpdateChoice(s, u, f, answer) ==
  CASE answer = "1" -> Done(s, question(u, "updateTask"), f, NoCall, FALSE)
    [] answer = "2" -> Done(s, question(u, "updateDate"), f, NoCall, FALSE)
    [] OTHER -> Done(s, showMainMenu(u), NoFlow, NoCall, FALSE)

\* TodoApp.updateTaskDescription, callback
onNewTask(s, u, f, newTask) ==
  TryThenMenu(u, "updateTaskDescription", updateTaskDescription(s, f.id, newTask))

\* TodoApp.updateDueDate, callback
onNewDueDate(s, u, f, dueDateStr) ==
  LET dueDate == newDate(dueDateStr)
  IN IF dueDate = "Invalid Date"
     THEN Done(s, showMainMenu(u), NoFlow, NoCall, FALSE)
     ELSE TryThenMenu(u, "updateDueDate", updateDueDate(s, f.id, dueDate))

\* one callback of TodoApp
Handle(d) ==
  /\ todos' = d.s.todos
  /\ heap' = d.s.heap
  /\ nextId' = d.s.nextId
  /\ ui' = d.ui
  /\ flow' = d.flow
  /\ storeCall' = d.call
  /\ uncaught' = (uncaught \/ d.uncaught)
  /\ allocs' = IF Len(d.s.todos) > Len(todos) THEN allocs + 1 ELSE allocs
  /\ assigned' = IF Len(d.s.todos) > Len(todos)
                 THEN assigned \cup {d.s.heap[allocs + 1].id} ELSE assigned
  /\ removed' = IF d.call = Called("removeTodo", "ok")
                THEN removed \cup ({heap[o].id : o \in Range(todos)} \ {d.s.heap[o].id : o \in Range(d.s.todos)})
                ELSE removed
  /\ UNCHANGED <<ret, mutations, filterVars>>

\* the callback of the main menu is about to run on the line typed
Chosen(answer) ==
  /\ ui.pc = "menu"
  /\ ui.pending > 0
  /\ ~uncaught
  /\ choice' = answer

Menu == [answered(ui) EXCEPT !.shown = 0]

\* the callback of another question is about to run
Answering(prompt) ==
  /\ ui.pc = prompt
  /\ ui.pending > 0
  /\ ~uncaught
  /\ UNCHANGED choice

Start ==
  /\ ui.pc = "none"
  /\ choice' = choice
  /\ Handle(Done(Store, showMainMenu(ui), NoFlow, NoCall, FALSE))

ChooseAdd ==
  /\ Chosen("1")
  /\ allocs < MaxId
  /\ Handle(Done(Store, question(Menu, "addTask"), NoFlow, NoCall, FALSE))

ChooseList ==
  \E answer \in {"2", "3", "4"} :
    /\ Chosen(answer)
    /\ Handle(listFlow(Store, Menu, answer))

ChooseComplete ==
  /\ Chosen("5")
  /\ Handle(completeTodoFlow(Store, Menu))

ChooseUpdate ==
  /\ Chosen("6")
  /\ Handle(updateTodoFlow(Store, Menu))

ChooseRemove ==
  /\ Chosen("7")
  /\ Handle(removeTodoFlow(Store, Menu))

ChooseClear ==
  /\ Chosen("8")
  /\ Handle(TryThenMenu(Menu, "clearCompletedTodos", clearCompletedTodos(Store)))

ChooseExit ==
  /\ Chosen("0")
  /\ Handle(Done(Store, exitApp(Menu), NoFlow, NoCall, FALSE))

ChooseOther ==
  \E answer \in MenuChoices \ {"0", "1", "2", "3", "4", "5", "6", "7", "8"} :
    /\ Chosen(answer)
    /\ Handle(Done(Store, showMainMenu(Menu), NoFlow, NoCall, FALSE))

AnswerTask ==
  \E task \in Descriptions :
    /\ Answering("addTask")
    /\ Handle(Done(Store, question(answered(ui), "addDate"),
                   [NoFlow EXCEPT !.task = task], NoCall, FALSE))

AnswerDueDate ==
  \E dueDateStr \in DateStrings :
    /\ Answering("addDate")
    /\ Handle(onDueDate(Store, answered(ui), flow.task, dueDateStr, allocs + 1))

AnswerCompleteId ==
  \E idStr \in IdStrings :
    /\ Answering("completeId")
    /\ Handle(onCompleteId(Store, answered(ui), idStr))

AnswerRemoveId ==
  \E idStr \in IdStrings :
    /\ Answering("removeId")
    /\ Handle(onRemoveId(Store, answered(ui), idStr))

AnswerUpdateId ==
  \E idStr \in IdStrings :
    /\ Answering("updateId")
    /\ Handle(onUpdateId(Store, answered(ui), flow, idStr))

AnswerUpdateChoice ==
  \E answer \in UpdateChoices :
    /\ Answering("updateChoice")
    /\ Handle(onUpdateChoice(Store, answered(ui), flow, answer))

AnswerNewTask ==
  \E newTask \in Descriptions :
    /\ Answering("updateTask")
    /\ Handle(onNewTask(Store, answered(ui), flow, newTask))

AnswerNewDueDate ==
  \E dueDateStr \in DateStrings :
    /\ Answering("updateDate")
    /\ Handle(onNewDueDate(Store, answered(ui), flow, dueDateStr))

NextApp ==
  \/ Start
  \/ ChooseAdd
  \/ ChooseList
  \/ ChooseComplete
  \/ ChooseUpdate
  \/ ChooseRemove
  \/ ChooseClear
  \/ ChooseExit
  \/ ChooseOther
  \/ AnswerTask
  \/ AnswerDueDate
  \/ AnswerCompleteId
  \/ AnswerRemoveId
  \/ AnswerUpdateId
  \/ AnswerUpdateChoice
  \/ AnswerNewTask
  \/ AnswerNewDueDate

SpecApp == Init /\ [][NextApp]_vars

\* ------------------------------------------------------------ properties
\* the stored tasks, as a later listTodos shows them
Tasks == Items(todos, heap)

IdsOf(items) == {items[i].id : i \in 1..Len(items)}

TaskWithId(items, id) == items[CHOOSE i \in 1..Len(items) : items[i].id = id]

Blank(task) == \A i \in 1..Len(task) : task[i] = " "

ThrewValidationError == ret.kind = "error" /\ ret.error = "ValidationError"
ThrewNotFoundError == ret.kind = "error" /\ ret.error = "NotFoundError"

\* C1: the next-id counter never decreases in any step: a step in which addTodo
\* succeeds raises it by exactly 1 and returns a task whose id is strictly
\* greater than every id assigned before (ids of removed or cleared tasks
\* included); every other step, failed calls included, leaves it unchanged.
NextIdNeverDecreases ==
  [][/\ nextId' >= nextId
     /\ IF allocs' # allocs
        THEN /\ nextId' = nextId + 1
             /\ ret'.kind = "item"
             /\ \A i \in assigned : heap'[ret'.item].id > i
        ELSE nextId' = nextId]_vars

\* addTodo has just returned a task while an earlier id had left the store
AddAfterDeletion ==
  /\ ret.kind = "item"
  /\ assigned \ IdsOf(Tasks) # {}

\* C2: the ids of the stored tasks are pairwise distinct, positive integers,
\* each strictly less than nextId.
StoredIdsUnique ==
  /\ \A i, j \in 1..Len(Tasks) : Tasks[i].id = Tasks[j].id => i = j
  /\ \A i \in 1..Len(Tasks) : Tasks[i].id \in Nat /\ Tasks[i].id > 0 /\ Tasks[i].id < nextId

\* two tasks are stored and completeTodo has acted on one of them
TwoTasksStored ==
  /\ Len(Tasks) >= 2
  /\ \E i \in 1..Len(Tasks) : Tasks[i].completed

\* C3: no write a caller makes to the object addTodo returned (to its task,
\* completed, dueDate or id) changes the tasks held in the store, as a later
\* listTodos or filterByStatus shows them.
ReturnedItemIsACopy == [][WriteReturnedItem => Tasks' = Tasks]_vars

\* C4: no change a caller makes to the array listTodos or filterByStatus
\* returned (adding, removing or reordering entries) or to any element of it
\* changes the tasks held in the store.
ReturnedListIsASnapshot ==
  [][(WriteListSequence \/ WriteListElement) => Tasks' = Tasks]_vars

\* C5: addTodo and updateTaskDescription with an empty or whitespace-only
\* description fail with a ValidationError and leave the task collection and
\* nextId as they were, for updateTaskDescription whether or not the id exists.
BlankDescriptionRejected ==
  \A task \in Descriptions : Blank(task) =>
    /\ \A dueDate \in Dates :
         LET r == addTodo(Store, task, dueDate, allocs + 1)
         IN r.outcome = "ValidationError" /\ r.s = Store
    /\ \A id \in Ids :
         LET r == updateTaskDescription(Store, id, task)
         IN r.outcome = "ValidationError" /\ r.s = Store

\* a call on a non-empty store has just failed with a ValidationError
ValidationErrorOnNonEmptyStore == ThrewValidationError /\ Len(Tasks) > 0

\* C6: completeTodo, removeTodo, updateTaskDescription (with a valid
\* description) and updateDueDate with an id no stored task has fail with a
\* NotFoundError and leave the task collection and nextId as they were.
AbsentIdRejected ==
  \A id \in Ids \ IdsOf(Tasks) :
    LET Rejected(r) == r.outcome = "NotFoundError" /\ r.s = Store
    IN /\ Rejected(completeTodo(Store, id))
       /\ Rejected(removeTodo(Store, id))
       /\ \A newTask \in Descriptions :
            ~Blank(newTask) => Rejected(updateTaskDescription(Store, id, newTask))
       /\ \A newDueDate \in Dates : Rejected(updateDueDate(Store, id, newDueDate))

\* a call on a non-empty store has just failed with a NotFoundError
NotFoundErrorOnNonEmptyStore == ThrewNotFoundError /\ Len(Tasks) > 0

\* C7: once removeTodo(id) has succeeded, completeTodo(id), removeTodo(id) and
\* updateTaskDescription(id, valid text) fail with NotFoundError in every later
\* state, whatever calls (successful addTodo included) came in between.
RemovedIdStaysAbsent ==
  \A id \in removed :
    /\ completeTodo(Store, id).outcome = "NotFoundError"
    /\ removeTodo(Store, id).outcome = "NotFoundError"
    /\ \A newTask \in Descriptions :
         ~Blank(newTask) =>
           updateTaskDescription(Store, id, newTask).outcome = "NotFoundError"

\* after a successful removeTodo and a later addTodo, a call has just failed
\* with NotFoundError
NotFoundAfterRemoveAndAdd ==
  /\ removed # {}
  /\ \E i \in 1..Len(Tasks) : \A id \in removed : Tasks[i].id > id
  /\ ThrewNotFoundError

\* C8: completeTodo is idempotent: for any stored id a second completeTodo(id)
\* succeeds, the store after two calls equals the store after one, and the
\* task's completed is still true.
CompleteTodoIdempotent ==
  \A id \in IdsOf(Tasks) :
    LET once == completeTodo(Store, id)
        twice == completeTodo(once.s, id)
    IN /\ once.outcome = "ok"
       /\ twice.outcome = "ok"
       /\ twice.s = once.s
       /\ TaskWithId(Items(twice.s.todos, twice.s.heap), id).completed

\* completeTodo has acted: a stored task is completed, another is not
SomeTaskCompleted ==
  /\ ret.kind = "void"
  /\ \E i, j \in 1..Len(Tasks) : Tasks[i].completed /\ ~Tasks[j].completed

\* C9: clearCompletedTodos removes exactly the tasks completed at call time,
\* returns how many it removed (0 when none), leaves the others in their order
\* with all fields unchanged, and a second call right after returns 0 and
\* changes nothing.
ClearRemovesExactlyCompleted ==
  LET first == clearCompletedTodos(Store)
      second == clearCompletedTodos(first.s)
      done == {i \in 1..Len(Tasks) : Tasks[i].completed}
  IN /\ first.outcome = "ok"
     /\ Items(first.s.todos, first.s.heap) = SelectSeq(Tasks, LAMBDA t : ~t.completed)
     /\ first.s.nextId = nextId
     /\ first.ret.kind = "count" /\ first.ret.count = Cardinality(done)
     /\ second.outcome = "ok" /\ second.ret.count = 0 /\ second.s = first.s
     /\ ret.kind = "count" => \A i \in 1..Len(Tasks) : ~Tasks[i].completed

\* clearCompletedTodos has just removed a task and left another
ClearedSomeKeptSome == ret.kind = "count" /\ ret.count > 0 /\ Len(Tasks) > 0

RECURSIVE IsSubsequence(_, _)
IsSubsequence(sub, seq) ==
  IF sub = <<>> THEN TRUE
  ELSE IF seq = <<>> THEN FALSE
  ELSE IF Head(sub) = Head(seq) THEN IsSubsequence(Tail(sub), Tail(seq))
  ELSE IsSubsequence(sub, Tail(seq))

IdSeq(items) == [i \in 1..Len(items) |-> items[i].id]

\* C10: filterByStatus(true) and filterByStatus(false) partition listTodos():
\* no id is in both, every id of listTodos() is in exactly one, and each result
\* keeps the order the tasks have in listTodos().
FilterByStatusPartitions ==
  LET all == IdSeq(Items(listTodos(Store).ret.list, heap))
      done == IdSeq(Items(filterByStatus(Store, TRUE).ret.list, heap))
      open == IdSeq(Items(filterByStatus(Store, FALSE).ret.list, heap))
  IN /\ Range(done) \cap Range(open) = {}
     /\ Range(done) \cup Range(open) = Range(all)
     /\ Len(done) + Len(open) = Len(all)
     /\ IsSubsequence(done, all)
     /\ IsSubsequence(open, all)

\* filterByStatus has just returned some of the stored tasks but not all
FilterReturnedProperPart ==
  /\ ret.kind = "list"
  /\ Len(ret.list) > 0
  /\ Len(ret.list) < Len(Tasks)

\* the text between the leading and the trailing blanks of str
IsTrimOf(text, str) ==
  \E i, j \in 0..Len(str) :
    /\ i + j <= Len(str)
    /\ \A k \in 1..i : str[k] = " "
    /\ \A k \in (Len(str) - j + 1)..Len(str) : str[k] = " "
    /\ text = SubSeq(str, i + 1, Len(str) - j)
    /\ text # <<>> => text[1] # " " /\ text[Len(text)] # " "

\* C11: every stored task's description is non-empty, not whitespace-only and
\* equal to its own trimmed form; addTodo and updateTaskDescription store the
\* trimmed text of what the caller passed.
DescriptionsTrimmed ==
  /\ \A i \in 1..Len(Tasks) :
       /\ Tasks[i].task # <<>>
       /\ ~Blank(Tasks[i].task)
       /\ IsTrimOf(Tasks[i].task, Tasks[i].task)
  /\ \A task \in Descriptions : ~Blank(task) =>
       /\ \A dueDate \in Dates :
            LET r == addTodo(Store, task, dueDate, allocs + 1)
            IN /\ r.outcome = "ok"
               /\ IsTrimOf(r.s.heap[r.ret.item].task, task)
       /\ \A id \in IdsOf(Tasks) :
            LET r == updateTaskDescription(Store, id, task)
            IN /\ r.outcome = "ok"
               /\ IsTrimOf(TaskWithId(Items(r.s.todos, r.s.heap), id).task, task)

\* two tasks are stored under different descriptions
TwoDescriptionsStored ==
  \E i, j \in 1..Len(Tasks) : Tasks[i].task # Tasks[j].task

\* C12: listTodos returns the stored tasks in insertion order: addTodo appends
\* at the end and no call reorders the tasks that stay, so the ids listTodos
\* returns are strictly ascending.
ListInInsertionOrder ==
  LET ids == IdSeq(Items(listTodos(Store).ret.list, heap))
  IN /\ \A i, j \in 1..Len(ids) : i < j => ids[i] < ids[j]
     /\ \A task \in Descriptions, dueDate \in Dates :
          LET r == addTodo(Store, task, dueDate, allocs + 1)
          IN r.outcome = "ok" =>
               /\ Len(r.s.todos) = Len(todos) + 1
               /\ SubSeq(r.s.todos, 1, Len(todos)) = todos
               /\ r.s.todos[Len(r.s.todos)] = r.ret.item

\* listTodos has just returned two tasks
ListReturnedTwoTasks == ret.kind = "list" /\ Len(ret.list) >= 2 /\ ret.list = todos

BuyMilk == <<"B", "u", "y", " ", "m", "i", "l", "k">>

\* C17: on a fresh store addTodo("Buy milk") returns a task with id 1 and
\* completed false; completeTodo(1) then makes its completed true;
\* clearCompletedTodos() then returns 1 and listTodos() is empty afterwards.
BuyMilkScenario ==
  (todos = <<>> /\ nextId = 1) =>
    \A dueDate \in Dates :
      LET added == addTodo(Store, BuyMilk, dueDate, allocs + 1)
          completed == completeTodo(added.s, 1)
          cleared == clearCompletedTodos(completed.s)
          listed == listTodos(cleared.s)
      IN /\ added.outcome = "ok"
         /\ added.s.heap[added.ret.item].id = 1
         /\ added.s.heap[added.ret.item].task = BuyMilk
         /\ ~added.s.heap[added.ret.item].completed
         /\ completed.outcome = "ok"
         /\ TaskWithId(Items(completed.s.todos, completed.s.heap), 1).completed
         /\ cleared.outcome = "ok"
         /\ cleared.ret.kind = "count" /\ cleared.ret.count = 1
         /\ listed.ret.kind = "list" /\ listed.ret.list = <<>>

\* the scenario has run on a fresh store: one task was ever added, and
\* clearCompletedTodos has just returned 1 and left the store empty
ScenarioHasRun ==
  /\ nextId = 2
  /\ removed = {}
  /\ ret.kind = "count" /\ ret.count = 1
  /\ Tasks = <<>>

\* the tasks of items, with the named field of the task with that id replaced
WithField(items, id, field, value) ==
  [i \in 1..Len(items) |->
     IF items[i].id = id THEN [items[i] EXCEPT ![field] = value] ELSE items[i]]

\* C18: a successful completeTodo, updateTaskDescription or updateDueDate
\* changes only the named field (completed, task, dueDate) of the one task
\* with that id: its id and other fields, every other task, the order and
\* size of the collection and nextId stay as they were; no step changes the
\* id of a task that stays in the store.
UpdatesChangeOneField ==
  /\ [](\A id \in IdsOf(Tasks) :
          LET Only(r, field, value) ==
                /\ r.outcome = "ok"
                /\ Items(r.s.todos, r.s.heap) = WithField(Tasks, id, field, value)
                /\ r.s.todos = todos
                /\ r.s.nextId = nextId
          IN /\ Only(completeTodo(Store, id), "completed", TRUE)
             /\ \A newTask \in Descriptions : ~Blank(newTask) =>
                  Only(updateTaskDescription(Store, id, newTask), "task",
                       CHOOSE text \in Descriptions : IsTrimOf(text, newTask))
             /\ \A newDueDate \in Dates :
                  Only(updateDueDate(Store, id, newDueDate), "dueDate", newDueDate))
  /\ [][\A o \in DOMAIN heap \cap DOMAIN heap' : heap'[o].id = heap[o].id]_vars

\* of two stored tasks, one has been completed, given another description and
\* another due date than the other
OneTaskUpdated ==
  \E i, j \in 1..Len(Tasks) :
    /\ Tasks[i].completed /\ ~Tasks[j].completed
    /\ Tasks[i].task # Tasks[j].task
    /\ Tasks[i].dueDate # Tasks[j].dueDate

\* person is of the variant type and equals crit at every key of crit
Satisfies(person, type, crit) ==
  /\ person.type = type
  /\ \A k \in DOMAIN crit : k \in DOMAIN person /\ person[k] = crit[k]

Names(ps) == [i \in 1..Len(ps) |-> ps[i].name]

\* C13: filterPersons returns exactly the records of persons, in input order,
\* whose type equals the tag and whose value at every field present in
\* criteria equals the criterion's value; an empty criteria returns every
\* record of that variant.
FilterPersonsExact ==
  [][called' =>
       /\ matched' = SelectSeq(people, LAMBDA p : Satisfies(p, personType, criteria))
       /\ DOMAIN criteria = {} =>
            matched' = SelectSeq(people, LAMBDA p : p.type = personType)]_vars

\* a call with two criteria on two records of the variant returned one of them
FilteredOneOfTwo ==
  /\ called
  /\ Cardinality(DOMAIN criteria) >= 2
  /\ Len(people) = 2 /\ \A i \in 1..2 : people[i].type = personType
  /\ Len(matched) = 1

\* C14: on the seed collection filterPersons(persons, 'user', {age: 23})
\* returns exactly the users Emma Thompson and Alex Kim in that order (the
\* admin of age 23 is left out) and filterPersons(persons, 'admin',
\* {role: 'Security Manager'}) returns exactly Raj Patel.
SeedResults ==
  (called /\ people = persons) =>
    /\ (personType = "user" /\ DOMAIN criteria = {"age"} /\ criteria["age"] = 23) =>
         /\ Names(matched) = <<"Emma Thompson", "Alex Kim">>
         /\ \A i \in 1..Len(matched) : matched[i].type = "user"
    /\ (personType = "admin" /\ DOMAIN criteria = {"role"}
          /\ criteria["role"] = "Security Manager") =>
         Names(matched) = <<"Raj Patel">>

\* the seed collection has been filtered for users of age 23
SeedUsersOfAge23 ==
  /\ called /\ people = persons
  /\ personType = "user" /\ DOMAIN criteria = {"age"} /\ criteria["age"] = 23
  /\ Len(matched) = 2

\* C15: filterPersons returns an empty array when no person matches: for an
\* empty persons, and for admins of age 999 in the seed collection.
NoMatchGivesEmpty ==
  called =>
    /\ (\A i \in 1..Len(people) : ~Satisfies(people[i], personType, criteria)) =>
         matched = <<>>
    /\ people = <<>> => matched = <<>>
    /\ (people = persons /\ personType = "admin" /\ DOMAIN criteria = {"age"}
          /\ criteria["age"] = 999) => matched = <<>>

\* the seed collection has been filtered for admins of age 999
SeedAdminsOfAge999 ==
  /\ called /\ people = persons
  /\ personType = "admin" /\ DOMAIN criteria = {"age"} /\ criteria["age"] = 999
  /\ matched = <<>>

\* C16: a call of filterPersons leaves persons (length, order, every field of
\* every record) and criteria as they were.
FilterPersonsPure == [][people' = people /\ criteria' = criteria]_vars

\* a call has left some of the persons out of its result
FilteredSomeOut == called /\ matched # <<>> /\ Len(matched) < Len(people)

\* the questions a flow asks, and how many answers each is from the flow's end
FlowPrompts ==
  {"addTask", "addDate", "completeId", "removeId",
   "updateId", "updateChoice", "updateTask", "updateDate"}

AnswersLeft(prompt) ==
  CASE prompt = "updateId" -> 3
    [] prompt \in {"addTask", "updateChoice"} -> 2
    [] prompt \in {"addDate", "completeId", "removeId", "updateTask", "updateDate"} -> 1
    [] OTHER -> 0

\* C19: whatever is chosen in the main menu but "0", and whatever is answered
\* in the flow it starts (an unknown choice, an id or a date that does not
\* parse, an answer the store rejects, the update sub-menu left by "0" or by
\* anything else), the flow ends at the main menu shown once with one question
\* pending: no error leaves a callback, a flow's question is the only one
\* pending and each answer brings the flow nearer its end, and the interface
\* is closed exactly by the choice "0".
MenuShownOnceAfterEveryFlow ==
  /\ [](/\ ~uncaught
        /\ ui.pc = "menu" => ui.shown = 1 /\ ui.pending = 1
        /\ ui.pc \in FlowPrompts => ui.shown = 0 /\ ui.pending = 1
        /\ ui.pc = "closed" <=> choice = "0"
        /\ ui.pc = "closed" => ui.pending = 0)
  /\ [][ui.pc \in FlowPrompts => AnswersLeft(ui'.pc) < AnswersLeft(ui.pc)]_vars

\* the main menu is back after the store refused the id typed in a flow
MenuAfterNotFoundError ==
  /\ ui = [pc |-> "menu", pending |-> 1, shown |-> 1]
  /\ choice \in {"5", "7"}
  /\ storeCall.outcome = "NotFoundError"
  /\ Len(todos) > 0

\* C20: the update flow asks for a change only of an id found in the array
\* listed when the flow started, that array lists the store as it still is
\* when the id is typed, and the id is still stored when the change is made:
\* the store's updateTaskDescription and updateDueDate, called by the flow,
\* never throw NotFoundError.
UpdateFlowFindsItsTask ==
  /\ ui.pc = "updateId" => flow.todos = todos
  /\ ui.pc \in {"updateChoice", "updateTask", "updateDate"} =>
       /\ findTodoIndexById(Store, flow.id) # -1
       /\ \A newTask \in Descriptions :
            updateTaskDescription(Store, flow.id, newTask).outcome # "NotFoundError"
       /\ \A newDueDate \in Dates :
            updateDueDate(Store, flow.id, newDueDate).outcome # "NotFoundError"
  /\ storeCall.op \in {"updateTaskDescription", "updateDueDate"} =>
       storeCall.outcome # "NotFoundError"

\* the flow has changed the due date of one of two tasks
UpdateFlowChangedDueDate ==
  /\ choice = "6"
  /\ storeCall = Called("updateDueDate", "ok")
  /\ Len(todos) = 2
  /\ ui.pc = "menu"
====
